---- MODULE Spec2Model ----
(***************************************************************************)
(* The interactive terminal browser of playbot (src/src/tui.rs): the       *)
(* terminal bracketing of `run`, the construction of `App`, and the event  *)
(* loop of `run_app` with its Normal/Editing and List/Detail dispatch.     *)
(*                                                                         *)
(* The Track Store (Database::get_all_tracks / Database::search_tracks) is *)
(* called by tui.rs but its code is not among the sources; it is modelled  *)
(* from the read contract the specification gives for it.                  *)
(***************************************************************************)
EXTENDS Integers, Sequences, FiniteSets, TLC

VARIABLES
    pc,         \* position of `run` / `run_app`
    term,       \* the terminal: raw mode, alternate screen, mouse capture, cursor
    store,      \* the rows of the tracks table, in the order the store returns them
    app,        \* the App value (tui.rs:29-38); meaningful once App::new returned Ok
    res,        \* `res`, the value run_app returned (tui.rs:137)
    result,     \* the value `run` returned to its caller
    key,        \* the event most recently returned by event::read (tui.rs:158)
    before,     \* history: `app` as it was when that event was read
    hist,       \* history: what has happened so far in this run
    queued      \* a resize event waits in the terminal's input queue,
                \* behind the event that event::read returns next

vars == <<pc, term, store, app, res, result, key, before, hist, queued>>

----------------------------------------------------------------------------
(* Bounds of the model. *)

MaxTracks == 3
MaxQueryLen == 2
MaxScroll == 3

----------------------------------------------------------------------------
(* Option<usize> of ListState::selected(): None is -1, Some(i) is i. *)

None == -1
Some(i) == i

(* detail_scroll is a u16 (tui.rs:37). *)
U16Max == 65535

----------------------------------------------------------------------------
(* Characters a KeyCode::Char can carry.  'q', '/', 'j', 'k', 'h' and 'l'  *)
(* are commands in Normal mode; 'a' is bound to nothing.                   *)

Chars == {"q", "/", "j", "k", "h", "l", "a"}

Lower(c) == IF c = "A" THEN "a" ELSE c

LowerSeq(s) == [i \in 1..Len(s) |-> Lower(s[i])]

(* Track records.  A track is its identifier; its title is a fixed         *)
(* function of the identifier.                                             *)
TitlePool == << <<"A", "q">>, <<"a", "j">>, <<"q", "q">> >>

TitleOf(id) == TitlePool[((id - 1) % Len(TitlePool)) + 1]

Stores == { [i \in 1..n |-> i] : n \in 0..MaxTracks }

(* needle occurs in hay as a contiguous substring *)
Contains(hay, needle) ==
    \E k \in 0..(Len(hay) - Len(needle)) :
        \A i \in 1..Len(needle) : hay[k + i] = needle[i]

Matches(id, q) == Contains(LowerSeq(TitleOf(id)), LowerSeq(q))

(* Track Store read contract: list_all and search(query). *)
get_all_tracks(db) == db

search_tracks(db, q) == SelectSeq(db, LAMBDA id : Matches(id, q))

----------------------------------------------------------------------------
(* Input events returned by event::read.  A key event has a kind (only     *)
(* Press is acted on) and a code; anything else (resize, mouse) is no key  *)
(* event.                                                                  *)

CharCode(c) == [tag |-> "Char", c |-> c]
Code(t) == [tag |-> t, c |-> ""]

SpecialTags == {"Down", "Up", "Left", "Right", "Enter", "Esc", "Backspace", "Tab"}

KeyCodes == {CharCode(c) : c \in Chars} \cup {Code(t) : t \in SpecialTags}

Press(code) == [type |-> "Key", kind |-> "Press", code |-> code]
Release(code) == [type |-> "Key", kind |-> "Release", code |-> code]
Resize == [type |-> "Resize", kind |-> "", code |-> Code("")]
ReleaseCodes == {CharCode("q"), Code("Enter")}
NoEvent == [type |-> "", kind |-> "", code |-> Code("")]

----------------------------------------------------------------------------
(* struct App and its methods (tui.rs:29-125), as functions of the App     *)
(* value.  `selected` is list_state.selected().                            *)

App_new(db) ==
    LET tracks == get_all_tracks(db) IN
    [ tracks        |-> tracks,
      selected      |-> IF tracks # <<>> THEN Some(0) ELSE None,
      search_query  |-> <<>>,
      input_mode    |-> "Normal",
      view_mode     |-> "List",
      should_quit   |-> FALSE,
      detail_scroll |-> 0 ]

saturating_add(x) == IF x >= U16Max THEN U16Max ELSE x + 1

(* The subtraction without the floor at 0. *)
plain_sub(x) == x - 1

saturating_sub(x) == IF x <= 0 THEN 0 ELSE x - 1

(* scroll_down that stops at a fixed content length of two lines. *)
scroll_down_clamped(a) ==
    [a EXCEPT !.detail_scroll =
        IF a.detail_scroll >= 2 THEN 2 ELSE saturating_add(a.detail_scroll)]

scroll_down(a) == [a EXCEPT !.detail_scroll = saturating_add(a.detail_scroll)]

scroll_up(a) == [a EXCEPT !.detail_scroll = saturating_sub(a.detail_scroll)]

(* reset_scroll that leaves the offset as it is. *)
reset_scroll_noop(a) == a

reset_scroll(a) == [a EXCEPT !.detail_scroll = 0]

(* next with the wrap test written `>` : the last index is stepped past. *)
next_wrap_late(a) ==
    IF a.tracks = <<>> THEN a
    ELSE [a EXCEPT !.selected =
            IF a.selected # None
            THEN (IF a.selected > Len(a.tracks) - 1 THEN 0 ELSE a.selected + 1)
            ELSE 0]

(* next that stops at the last index instead of wrapping. *)
next_saturating(a) ==
    IF a.tracks = <<>> THEN a
    ELSE [a EXCEPT !.selected =
            IF a.selected # None
            THEN (IF a.selected >= Len(a.tracks) - 1
                  THEN Len(a.tracks) - 1 ELSE a.selected + 1)
            ELSE 0]

next(a) ==
    IF a.tracks = <<>> THEN a
    ELSE [a EXCEPT !.selected =
            IF a.selected # None
            THEN (IF a.selected >= Len(a.tracks) - 1 THEN 0 ELSE a.selected + 1)
            ELSE 0]

(* previous that stops at index 0 instead of wrapping. *)
previous_saturating(a) ==
    IF a.tracks = <<>> THEN a
    ELSE [a EXCEPT !.selected =
            IF a.selected # None
            THEN (IF a.selected = 0 THEN 0 ELSE a.selected - 1)
            ELSE 0]

previous(a) ==
    IF a.tracks = <<>> THEN a
    ELSE [a EXCEPT !.selected =
            IF a.selected # None
            THEN (IF a.selected = 0 THEN Len(a.tracks) - 1 ELSE a.selected - 1)
            ELSE 0]

(* update_search that selects index 0 without looking at the new tracks. *)
update_search_always_first(a, db) ==
    LET tracks == IF a.search_query = <<>>
                  THEN get_all_tracks(db)
                  ELSE search_tracks(db, a.search_query) IN
    [a EXCEPT !.tracks = tracks, !.selected = Some(0)]

(* update_search that keeps the selected index while it is still valid. *)
update_search_keep_index(a, db) ==
    LET tracks == IF a.search_query = <<>>
                  THEN get_all_tracks(db)
                  ELSE search_tracks(db, a.search_query) IN
    [a EXCEPT !.tracks = tracks,
              !.selected = IF tracks = <<>> THEN None
                           ELSE IF a.selected # None /\ a.selected < Len(tracks)
                                THEN a.selected ELSE Some(0)]

(* An update_search that returns at once when the query text is empty.     *)
update_search_skips_empty(a, db) ==
    IF a.search_query = <<>> THEN a
    ELSE LET tracks == search_tracks(db, a.search_query) IN
         [a EXCEPT !.tracks = tracks,
                   !.selected = IF tracks # <<>> THEN Some(0) ELSE None]

(* update_search when the store query returns Ok. *)
update_search(a, db) ==
    LET tracks == IF a.search_query = <<>>
                  THEN get_all_tracks(db)
                  ELSE search_tracks(db, a.search_query) IN
    [a EXCEPT !.tracks = tracks,
              !.selected = IF tracks # <<>> THEN Some(0) ELSE None]

(* An update_search that empties tracks before it asks the store. *)
update_search_err_clears(a) == [a EXCEPT !.tracks = <<>>]

(* update_search when the store query returns Err: `?` returns before the  *)
(* assignment to self.tracks, so nothing of the App is written.            *)
update_search_err(a) == a

(* A push that puts the character in front of the text. *)
push_front(q, c) == <<c>> \o q

(* String::push (tui.rs:210). *)
push(q, c) == Append(q, c)

(* pop that removes the first character instead of the last. *)
pop_front(q) == IF q = <<>> THEN q ELSE SubSeq(q, 2, Len(q))

pop(q) == IF q = <<>> THEN q ELSE SubSeq(q, 1, Len(q) - 1)

----------------------------------------------------------------------------
(* The match on key.code of run_app (tui.rs:163-222), as functions of the  *)
(* App value.                                                              *)

(* Normal arms in which 'l'/Right and 'h'/Left do not look at view_mode. *)
KeyNormal_lh_any_view(a, code) ==
    CASE code = CharCode("q") -> [a EXCEPT !.should_quit = TRUE]
      [] code = CharCode("/") -> [a EXCEPT !.input_mode = "Editing"]
      [] code \in {CharCode("j"), Code("Down")} ->
            IF a.view_mode = "List" THEN next(a) ELSE scroll_down(a)
      [] code \in {CharCode("k"), Code("Up")} ->
            IF a.view_mode = "List" THEN previous(a) ELSE scroll_up(a)
      [] code \in {CharCode("l"), Code("Right")} -> reset_scroll(next(a))
      [] code \in {CharCode("h"), Code("Left")} -> reset_scroll(previous(a))
      [] code = Code("Enter") ->
            IF a.view_mode = "List"
            THEN [reset_scroll(a) EXCEPT !.view_mode = "Detail"]
            ELSE [reset_scroll(a) EXCEPT !.view_mode = "List"]
      [] code = Code("Esc") -> [reset_scroll(a) EXCEPT !.view_mode = "List"]
      [] OTHER -> a

(* Normal arms in which 'l'/Right and 'h'/Left leave detail_scroll alone. *)
KeyNormal_lh_keep_scroll(a, code) ==
    CASE code = CharCode("q") -> [a EXCEPT !.should_quit = TRUE]
      [] code = CharCode("/") -> [a EXCEPT !.input_mode = "Editing"]
      [] code \in {CharCode("j"), Code("Down")} ->
            IF a.view_mode = "List" THEN next(a) ELSE scroll_down(a)
      [] code \in {CharCode("k"), Code("Up")} ->
            IF a.view_mode = "List" THEN previous(a) ELSE scroll_up(a)
      [] code \in {CharCode("l"), Code("Right")} ->
            IF a.view_mode = "Detail" THEN next(a) ELSE a
      [] code \in {CharCode("h"), Code("Left")} ->
            IF a.view_mode = "Detail" THEN previous(a) ELSE a
      [] code = Code("Enter") ->
            IF a.view_mode = "List"
            THEN [reset_scroll(a) EXCEPT !.view_mode = "Detail"]
            ELSE [reset_scroll(a) EXCEPT !.view_mode = "List"]
      [] code = Code("Esc") -> [reset_scroll(a) EXCEPT !.view_mode = "List"]
      [] OTHER -> a

(* Normal arms in which going back to the List view, by Enter or Esc,      *)
(* leaves detail_scroll as it is.                                          *)
KeyNormal_back_keeps_scroll(a, code) ==
    CASE code = CharCode("q") -> [a EXCEPT !.should_quit = TRUE]
      [] code = CharCode("/") -> [a EXCEPT !.input_mode = "Editing"]
      [] code \in {CharCode("j"), Code("Down")} ->
            IF a.view_mode = "List" THEN next(a) ELSE scroll_down(a)
      [] code \in {CharCode("k"), Code("Up")} ->
            IF a.view_mode = "List" THEN previous(a) ELSE scroll_up(a)
      [] code \in {CharCode("l"), Code("Right")} ->
            IF a.view_mode = "Detail" THEN reset_scroll(next(a)) ELSE a
      [] code \in {CharCode("h"), Code("Left")} ->
            IF a.view_mode = "Detail" THEN reset_scroll(previous(a)) ELSE a
      [] code = Code("Enter") ->
            IF a.view_mode = "List"
            THEN [reset_scroll(a) EXCEPT !.view_mode = "Detail"]
            ELSE [a EXCEPT !.view_mode = "List"]
      [] code = Code("Esc") -> [a EXCEPT !.view_mode = "List"]
      [] OTHER -> a

(* InputMode::Normal arms, in the order the match tries them. *)
KeyNormal(a, code) ==
    CASE code = CharCode("q") -> [a EXCEPT !.should_quit = TRUE]
      [] code = CharCode("/") -> [a EXCEPT !.input_mode = "Editing"]
      [] code \in {CharCode("j"), Code("Down")} ->
            IF a.view_mode = "List" THEN next(a) ELSE scroll_down(a)
      [] code \in {CharCode("k"), Code("Up")} ->
            IF a.view_mode = "List" THEN previous(a) ELSE scroll_up(a)
      [] code \in {CharCode("l"), Code("Right")} ->
            IF a.view_mode = "Detail" THEN reset_scroll(next(a)) ELSE a
      [] code \in {CharCode("h"), Code("Left")} ->
            IF a.view_mode = "Detail" THEN reset_scroll(previous(a)) ELSE a
      [] code = Code("Enter") ->
            IF a.view_mode = "List"
            THEN [reset_scroll(a) EXCEPT !.view_mode = "Detail"]
            ELSE [reset_scroll(a) EXCEPT !.view_mode = "List"]
      [] code = Code("Esc") -> [reset_scroll(a) EXCEPT !.view_mode = "List"]
      [] OTHER -> a

(* Editing arms in which Esc, as a cancel, also clears the query. *)
KeyEditing_esc_clears(a, code) ==
    CASE code = Code("Enter") -> [a EXCEPT !.input_mode = "Normal"]
      [] code = Code("Esc") -> [a EXCEPT !.input_mode = "Normal",
                                         !.search_query = <<>>]
      [] OTHER -> a

(* Editing arms in which every key without an arm of its own leaves the    *)
(* search box, as Enter and Esc do.                                        *)
KeyEditing_other_leaves(a, code) ==
    CASE code = Code("Enter") -> [a EXCEPT !.input_mode = "Normal"]
      [] code = Code("Esc") -> [a EXCEPT !.input_mode = "Normal"]
      [] OTHER -> [a EXCEPT !.input_mode = "Normal"]

(* Editing arms in which only Enter closes the search box. *)
KeyEditing_enter_only(a, code) ==
    CASE code = Code("Enter") -> [a EXCEPT !.input_mode = "Normal"]
      [] OTHER -> a

(* InputMode::Editing arms that do not query the store. *)
KeyEditing(a, code) ==
    CASE code = Code("Enter") -> [a EXCEPT !.input_mode = "Normal"]
      [] code = Code("Esc") -> [a EXCEPT !.input_mode = "Normal"]
      [] OTHER -> a

(* InputMode::Editing arms that change search_query and call update_search. *)
EditsQuery(code) == code.tag = "Char" \/ code = Code("Backspace")

(* The typed character put in front of the query instead of at its end. *)
EditQuery_prepend(a, code) ==
    IF code.tag = "Char"
    THEN [a EXCEPT !.search_query = <<code.c>> \o a.search_query]
    ELSE [a EXCEPT !.search_query = pop(a.search_query)]

EditQuery(a, code) ==
    IF code.tag = "Char"
    THEN [a EXCEPT !.search_query = push(a.search_query, code.c)]
    ELSE [a EXCEPT !.search_query = pop(a.search_query)]

(* The quit check reading the flag as it was before the event. *)
QuitCheck_stale(a) == app.should_quit

(* `if app.should_quit { break; }` at the end of an iteration. *)
QuitCheck(a) == a.should_quit

(* Whether the arm taken for `code` calls App::next. *)
CallsNext(a, code) ==
    /\ a.input_mode = "Normal"
    /\ \/ code \in {CharCode("j"), Code("Down")} /\ a.view_mode = "List"
       \/ code \in {CharCode("l"), Code("Right")} /\ a.view_mode = "Detail"

(* A render that puts the highlight on the first row of a non-empty list. *)
ui_selects_first(a) ==
    IF a.view_mode = "List"
    THEN [a EXCEPT !.selected = IF a.tracks = <<>> THEN None ELSE Some(0)]
    ELSE a

(* ui (tui.rs:233-251).  render_track_list hands &mut app.list_state to the *)
(* List widget, which drops a selection that does not index an item.       *)
ui(a) ==
    IF a.view_mode = "List"
    THEN [a EXCEPT !.selected =
            IF a.tracks = <<>> THEN None
            ELSE IF a.selected # None /\ a.selected >= Len(a.tracks)
                 THEN Len(a.tracks) - 1
                 ELSE a.selected]
    ELSE a

----------------------------------------------------------------------------
(* The state machine. *)

NoApp == App_new(<<>>)

InLoop == pc \in {"draw", "read"}

Init ==
    /\ pc = "enable_raw"
    /\ term = [raw |-> FALSE, alt |-> FALSE, mouse |-> FALSE, cursor |-> TRUE]
    /\ store \in Stores
    /\ app = NoApp
    /\ res = "none"
    /\ result = "none"
    /\ key = NoEvent
    /\ before = NoApp
    /\ hist = [load |-> "pending", rawEntered |-> FALSE, frames |-> FALSE,
               reads |-> FALSE, lastQuery |-> "none",
               nextStart |-> None, nextCount |-> 0]
    /\ queued = FALSE

(* `?` on a setup or teardown step of run: run returns the error at once. *)
ReturnErr ==
    /\ pc' = "returned"
    /\ result' = "Err"

(* run, tui.rs:129 *)
EnableRawModeOk ==
    /\ pc = "enable_raw"
    /\ term' = [term EXCEPT !.raw = TRUE]
    /\ hist' = [hist EXCEPT !.rawEntered = TRUE]
    /\ pc' = "enter_alt"
    /\ UNCHANGED <<store, app, res, result, key, before, queued>>

EnableRawModeErr ==
    /\ pc = "enable_raw"
    /\ ReturnErr
    /\ UNCHANGED <<term, store, app, res, key, before, hist, queued>>

(* run, tui.rs:131 *)
EnterAlternateScreenOk ==
    /\ pc = "enter_alt"
    /\ term' = [term EXCEPT !.alt = TRUE, !.mouse = TRUE]
    /\ pc' = "terminal_new"
    /\ UNCHANGED <<store, app, res, result, key, before, hist, queued>>

(* The two commands are written in order; a failure may come after the     *)
(* first has taken effect.                                                 *)
EnterAlternateScreenErr ==
    /\ pc = "enter_alt"
    /\ \E entered \in BOOLEAN : term' = [term EXCEPT !.alt = entered]
    /\ ReturnErr
    /\ UNCHANGED <<store, app, res, key, before, hist, queued>>

(* run, tui.rs:132-133 *)
TerminalNewOk ==
    /\ pc = "terminal_new"
    /\ pc' = "app_new"
    /\ UNCHANGED <<term, store, app, res, result, key, before, hist, queued>>

TerminalNewErr ==
    /\ pc = "terminal_new"
    /\ ReturnErr
    /\ UNCHANGED <<term, store, app, res, key, before, hist, queued>>

(* run, tui.rs:136, and App::new, tui.rs:41-58 *)
AppNewOk ==
    /\ pc = "app_new"
    /\ app' = App_new(store)
    /\ before' = App_new(store)
    /\ hist' = [hist EXCEPT !.load = "ok"]
    /\ pc' = "draw"
    /\ UNCHANGED <<term, store, res, result, key, queued>>

(* A failed initial load that is swallowed: the loop starts on an empty App. *)
AppNewErr_continue ==
    /\ pc = "app_new"
    /\ hist' = [hist EXCEPT !.load = "failed"]
    /\ pc' = "draw"
    /\ UNCHANGED <<term, store, app, res, result, key, before, queued>>

AppNewErr ==
    /\ pc = "app_new"
    /\ hist' = [hist EXCEPT !.load = "failed"]
    /\ ReturnErr
    /\ UNCHANGED <<term, store, app, res, key, before, queued>>

(* run_app, tui.rs:156: one frame is drawn; drawing hides the cursor. *)
DrawOk ==
    /\ pc = "draw"
    /\ app' = ui(app)
    /\ term' = [term EXCEPT !.cursor = FALSE]
    /\ hist' = [hist EXCEPT !.frames = TRUE]
    /\ pc' = "read"
    /\ UNCHANGED <<store, res, result, key, before, queued>>

(* The backend may fail before or after the render callback has run. *)
DrawErr ==
    /\ pc = "draw"
    /\ app' \in {app, ui(app)}
    /\ res' = "Err"
    /\ pc' = "disable_raw"
    /\ UNCHANGED <<term, store, result, key, before, hist, queued>>

(* run_app, tui.rs:158: event::read()? fails. *)
ReadErr ==
    /\ pc = "read"
    /\ res' = "Err"
    /\ pc' = "disable_raw"
    /\ UNCHANGED <<term, store, app, result, key, before, hist, queued>>

(* The history of consecutive App::next calls, after event `code` was      *)
(* handled from App value `a`.                                             *)
NextRun(a, code) ==
    IF CallsNext(a, code)
    THEN IF hist.nextCount = 0 \/ hist.nextCount >= Len(a.tracks)
         THEN [hist EXCEPT !.nextStart = a.selected, !.nextCount = 1]
         ELSE [hist EXCEPT !.nextCount = hist.nextCount + 1]
    ELSE [hist EXCEPT !.nextStart = None, !.nextCount = 0]

(* The rest of an iteration once the event `ev` has been handled and left  *)
(* the App as `a`: the quit check of tui.rs:225-227, then either the next  *)
(* iteration or `Ok(())` (tui.rs:230).                                     *)
Iterate(ev, a, q) ==
    /\ key' = ev
    /\ before' = app
    /\ app' = a
    /\ hist' = [NextRun(app, ev.code) EXCEPT !.reads = TRUE, !.lastQuery = q]
    /\ IF QuitCheck(a)
       THEN pc' = "disable_raw" /\ res' = "Ok"
       ELSE pc' = "draw" /\ res' = res
    /\ queued' = (IF ev = Resize THEN FALSE ELSE queued)
    /\ UNCHANGED <<term, store, result>>

(* tui.rs:158: an event that is no key event skips the match. *)
ReadNotKey ==
    /\ pc = "read"
    /\ Iterate(Resize, app, "none")

(* A loop without the test of key.kind: the release of a key is handled    *)
(* as its press is.                                                        *)
ReadKeyNotPress_handled ==
    /\ pc = "read"
    /\ \E code \in ReleaseCodes :
        Iterate(Release(code),
                IF app.input_mode = "Normal"
                THEN KeyNormal(app, code) ELSE KeyEditing(app, code),
                "none")

(* tui.rs:159-161: a key event that is no press: `continue`. *)
ReadKeyNotPress ==
    /\ pc = "read"
    /\ \E code \in ReleaseCodes :
        /\ key' = Release(code)
        /\ before' = app
        /\ hist' = [hist EXCEPT !.reads = TRUE, !.lastQuery = "none",
                                !.nextStart = None, !.nextCount = 0]
        /\ pc' = "draw"
        /\ UNCHANGED <<term, store, app, res, result, queued>>

QuitKeys == {CharCode("q")}
SearchKeys == {CharCode("/")}
DownKeys == {CharCode("j"), Code("Down")}
UpKeys == {CharCode("k"), Code("Up")}
RightKeys == {CharCode("l"), Code("Right")}
LeftKeys == {CharCode("h"), Code("Left")}
EnterKeys == {Code("Enter")}
EscKeys == {Code("Esc")}
BoundKeys == QuitKeys \cup SearchKeys \cup DownKeys \cup UpKeys \cup RightKeys
             \cup LeftKeys \cup EnterKeys \cup EscKeys

(* tui.rs:164-204: a key press handled by the InputMode::Normal match. *)
NormalPress(code) ==
    /\ KeyNormal(app, code).detail_scroll <= MaxScroll
    /\ Iterate(Press(code), KeyNormal(app, code), "none")

NormalQuit ==
    /\ pc = "read" /\ app.input_mode = "Normal"
    /\ \E code \in QuitKeys \cap KeyCodes : NormalPress(code)

NormalSearch ==
    /\ pc = "read" /\ app.input_mode = "Normal"
    /\ \E code \in SearchKeys \cap KeyCodes : NormalPress(code)

NormalDown ==
    /\ pc = "read" /\ app.input_mode = "Normal"
    /\ \E code \in DownKeys \cap KeyCodes : NormalPress(code)

NormalUp ==
    /\ pc = "read" /\ app.input_mode = "Normal"
    /\ \E code \in UpKeys \cap KeyCodes : NormalPress(code)

NormalRight ==
    /\ pc = "read" /\ app.input_mode = "Normal"
    /\ \E code \in RightKeys \cap KeyCodes : NormalPress(code)

NormalLeft ==
    /\ pc = "read" /\ app.input_mode = "Normal"
    /\ \E code \in LeftKeys \cap KeyCodes : NormalPress(code)

NormalEnter ==
    /\ pc = "read" /\ app.input_mode = "Normal"
    /\ \E code \in EnterKeys \cap KeyCodes : NormalPress(code)

NormalEsc ==
    /\ pc = "read" /\ app.input_mode = "Normal"
    /\ \E code \in EscKeys \cap KeyCodes : NormalPress(code)

NormalOther ==
    /\ pc = "read" /\ app.input_mode = "Normal"
    /\ \E code \in KeyCodes \ BoundKeys : NormalPress(code)

(* tui.rs:205-221: a key press handled by the InputMode::Editing match     *)
(* without a store query.                                                  *)
EditingPress(code) == Iterate(Press(code), KeyEditing(app, code), "none")

EditingEnter ==
    /\ pc = "read" /\ app.input_mode = "Editing"
    /\ \E code \in EnterKeys \cap KeyCodes : EditingPress(code)

EditingEsc ==
    /\ pc = "read" /\ app.input_mode = "Editing"
    /\ \E code \in EscKeys \cap KeyCodes : EditingPress(code)

EditingOther ==
    /\ pc = "read" /\ app.input_mode = "Editing"
    /\ \E code \in {c \in KeyCodes : ~EditsQuery(c)} \ (EnterKeys \cup EscKeys) :
        EditingPress(code)

(* tui.rs:209-216 with update_search returning Ok. *)
EditingQueryOk(code) ==
    /\ Len(EditQuery(app, code).search_query) <= MaxQueryLen
    /\ Iterate(Press(code), update_search(EditQuery(app, code), store), "ok")

(* tui.rs:209-216 with update_search returning Err: `?` returns the error  *)
(* out of run_app.                                                         *)
EditingQueryErr(code) ==
    /\ Len(EditQuery(app, code).search_query) <= MaxQueryLen
    /\ key' = Press(code)
    /\ before' = app
    /\ app' = update_search_err(EditQuery(app, code))
    /\ hist' = [hist EXCEPT !.reads = TRUE, !.lastQuery = "failed",
                            !.nextStart = None, !.nextCount = 0]
    /\ res' = "Err"
    /\ pc' = "disable_raw"
    /\ UNCHANGED <<term, store, result, queued>>

(* The character arm tried before the mode: 'q' quits while Editing. *)
EditingChar_q_quits ==
    /\ pc = "read" /\ app.input_mode = "Editing"
    /\ \E c \in Chars :
          IF c = "q" THEN NormalPress(CharCode(c))
                     ELSE EditingQueryOk(CharCode(c))

EditingChar ==
    /\ pc = "read" /\ app.input_mode = "Editing"
    /\ \E c \in Chars : EditingQueryOk(CharCode(c))

EditingBackspace ==
    /\ pc = "read" /\ app.input_mode = "Editing"
    /\ EditingQueryOk(Code("Backspace"))

EditingCharErr ==
    /\ pc = "read" /\ app.input_mode = "Editing"
    /\ \E c \in Chars : EditingQueryErr(CharCode(c))

EditingBackspaceErr ==
    /\ pc = "read" /\ app.input_mode = "Editing"
    /\ EditingQueryErr(Code("Backspace"))

(* run, tui.rs:140 *)
DisableRawModeOk ==
    /\ pc = "disable_raw"
    /\ term' = [term EXCEPT !.raw = FALSE]
    /\ pc' = "leave_alt"
    /\ UNCHANGED <<store, app, res, result, key, before, hist, queued>>

DisableRawModeErr ==
    /\ pc = "disable_raw"
    /\ ReturnErr
    /\ UNCHANGED <<term, store, app, res, key, before, hist, queued>>

(* run, tui.rs:141-145 *)
LeaveAlternateScreenOk ==
    /\ pc = "leave_alt"
    /\ term' = [term EXCEPT !.alt = FALSE, !.mouse = FALSE]
    /\ pc' = "show_cursor"
    /\ UNCHANGED <<store, app, res, result, key, before, hist, queued>>

LeaveAlternateScreenErr ==
    /\ pc = "leave_alt"
    /\ \E left \in BOOLEAN : term' = [term EXCEPT !.alt = ~left]
    /\ ReturnErr
    /\ UNCHANGED <<store, app, res, key, before, hist, queued>>

(* run, tui.rs:146-148 *)
ShowCursorOk ==
    /\ pc = "show_cursor"
    /\ term' = [term EXCEPT !.cursor = TRUE]
    /\ pc' = "returned"
    /\ result' = res
    /\ UNCHANGED <<store, app, res, key, before, hist, queued>>

ShowCursorErr ==
    /\ pc = "show_cursor"
    /\ ReturnErr
    /\ UNCHANGED <<term, store, app, res, key, before, hist, queued>>

Next ==
    \/ EnableRawModeOk \/ EnableRawModeErr
    \/ EnterAlternateScreenOk \/ EnterAlternateScreenErr
    \/ TerminalNewOk \/ TerminalNewErr
    \/ AppNewOk \/ AppNewErr
    \/ DrawOk \/ DrawErr
    \/ ReadErr \/ ReadNotKey \/ ReadKeyNotPress
    \/ NormalQuit \/ NormalSearch \/ NormalDown \/ NormalUp
    \/ NormalRight \/ NormalLeft \/ NormalEnter \/ NormalEsc \/ NormalOther
    \/ EditingEnter \/ EditingEsc \/ EditingOther
    \/ EditingChar \/ EditingBackspace \/ EditingCharErr \/ EditingBackspaceErr
    \/ DisableRawModeOk \/ DisableRawModeErr
    \/ LeaveAlternateScreenOk \/ LeaveAlternateScreenErr
    \/ ShowCursorOk \/ ShowCursorErr

Spec == Init /\ [][Next]_vars

(* The terminal's input queue (crossterm, behind event::read, tui.rs:158). *)
(* While the loop runs, a resize event may arrive and wait in the queue    *)
(* behind the event that the next event::read returns; reading a resize    *)
(* event takes it out of the queue.                                        *)
ResizeArrives ==
    /\ InLoop
    /\ ~queued
    /\ queued' = TRUE
    /\ UNCHANGED <<pc, term, store, app, res, result, key, before, hist>>

NextQueue == Next \/ ResizeArrives

SpecQueue == Init /\ [][NextQueue]_vars

----------------------------------------------------------------------------
(* Properties.  `key` and `before` describe the event handled last, so a   *)
(* statement about "the App after event e" is a state predicate.           *)

AppExists == hist.load = "ok"

Restored == [raw |-> FALSE, alt |-> FALSE, mouse |-> FALSE, cursor |-> TRUE]

PressedIn(codes, input_mode, view_mode) ==
    /\ hist.reads
    /\ key.type = "Key" /\ key.kind = "Press" /\ key.code \in codes
    /\ before.input_mode = input_mode
    /\ before.view_mode = view_mode

(* The last event called App::next / App::previous. *)
NextApplied ==
    \/ PressedIn(DownKeys, "Normal", "List")
    \/ PressedIn(RightKeys, "Normal", "Detail")

PreviousApplied ==
    \/ PressedIn(UpKeys, "Normal", "List")
    \/ PressedIn(LeftKeys, "Normal", "Detail")

(* C1: once App::new has returned, in every state selected is None iff     *)
(* tracks is empty, and otherwise 0 <= selected < len(tracks).             *)
C1_SelectionValid ==
    AppExists =>
        /\ (app.selected = None) <=> (app.tracks = <<>>)
        /\ app.selected # None =>
              (0 <= app.selected /\ app.selected < Len(app.tracks))

(* A search has emptied a non-empty list and dropped the selection. *)
C1_Witness ==
    /\ hist.lastQuery = "ok"
    /\ before.tracks # <<>> /\ before.selected > 0
    /\ app.tracks = <<>> /\ app.selected = None

(* C2: after a store query failed in update_search the event loop is still *)
(* running (it has not returned an error) and tracks is what it was.       *)
C2_QueryFailureNonFatal ==
    hist.lastQuery = "failed" =>
        /\ InLoop
        /\ res # "Err" /\ result # "Err"
        /\ app.tracks = before.tracks

(* C3: whenever run has returned after raw mode was enabled, raw mode is   *)
(* off, the alternate screen is left, mouse capture is off and the cursor  *)
(* is shown.                                                               *)
C3_RestoredOnEveryReturn ==
    (pc = "returned" /\ hist.rawEntered) => term = Restored

(* C4: when the initial load failed, no frame was drawn, no event was      *)
(* read, the loop is not running, and run has returned the error.          *)
C4_LoadFailureIsFatal ==
    hist.load = "failed" =>
        /\ ~hist.frames /\ ~hist.reads
        /\ ~InLoop
        /\ pc = "returned" /\ result = "Err"

C4_Witness ==
    /\ hist.load = "failed"
    /\ hist.rawEntered
    /\ pc = "returned" /\ result = "Err"

(* C5: after a key whose store query succeeded, selected is Some(0) when   *)
(* the new tracks are non-empty and None when they are empty.              *)
C5_ReselectAfterRefresh ==
    hist.lastQuery = "ok" =>
        app.selected = (IF app.tracks # <<>> THEN Some(0) ELSE None)

(* The track selected before the query is still listed, not at index 0,    *)
(* and the selection went to index 0 all the same.                         *)
C5_Witness ==
    /\ hist.lastQuery = "ok"
    /\ before.selected > 0
    /\ app.selected = Some(0)
    /\ \E i \in 2..Len(app.tracks) :
          app.tracks[i] = before.tracks[before.selected + 1]

(* C6: a key that calls App::next leaves tracks alone; on empty tracks it  *)
(* leaves the selection alone (and, in List view, the whole App); on       *)
(* non-empty tracks it moves the selection from i to i+1, or to 0 from the *)
(* last index.                                                             *)
C6_SelectNext ==
    NextApplied =>
        /\ app.tracks = before.tracks
        /\ before.tracks = <<>> =>
              /\ app.selected = before.selected
              /\ before.view_mode = "List" => app = before
        /\ before.tracks # <<>> =>
              app.selected = (IF before.selected = Len(before.tracks) - 1
                              THEN 0 ELSE before.selected + 1)

(* Two tracks, selection 0, two down-keys in a row: 0 -> 1 -> 0. *)
C6_Witness ==
    /\ PressedIn(DownKeys, "Normal", "List")
    /\ Len(app.tracks) = 2
    /\ hist.nextStart = 0 /\ hist.nextCount = 2
    /\ before.selected = 1 /\ app.selected = 0

(* C7: a key that calls App::previous leaves tracks alone; on empty tracks *)
(* it leaves the selection alone (and, in List view, the whole App); on    *)
(* non-empty tracks it moves the selection from i to i-1, or to the last   *)
(* index from 0.                                                           *)
C7_SelectPrevious ==
    PreviousApplied =>
        /\ app.tracks = before.tracks
        /\ before.tracks = <<>> =>
              /\ app.selected = before.selected
              /\ before.view_mode = "List" => app = before
        /\ before.tracks # <<>> =>
              app.selected = (IF before.selected = 0
                              THEN Len(before.tracks) - 1
                              ELSE before.selected - 1)

C7_Witness ==
    /\ PressedIn(UpKeys, "Normal", "List")
    /\ Len(app.tracks) = 3
    /\ before.selected = 0 /\ app.selected = 2

(* C8: after len(tracks) consecutive calls of App::next, with no other     *)
(* event in between, selected is what it was before the first of them.     *)
C8_NextWrapsAround ==
    (app.tracks # <<>> /\ hist.nextCount = Len(app.tracks)) =>
        app.selected = hist.nextStart

C8_Witness ==
    /\ Len(app.tracks) = 3
    /\ hist.nextCount = 3
    /\ hist.nextStart = 1 /\ app.selected = 1

(* C9: 'q' pressed in Normal mode sets should_quit, in List and in Detail  *)
(* view; while should_quit is set the loop is not running, the last event  *)
(* handled is that 'q', and run_app's value is Ok; should_quit never goes  *)
(* back to false.                                                          *)
C9_QuitState ==
    /\ (PressedIn(QuitKeys, "Normal", "List")
            \/ PressedIn(QuitKeys, "Normal", "Detail")) => app.should_quit
    /\ app.should_quit =>
          /\ ~InLoop
          /\ res = "Ok"
          /\ key = Press(CharCode("q"))
          /\ before.input_mode = "Normal" /\ ~before.should_quit

C9_QuitTerminatesLoop ==
    [](C9_QuitState) /\ [][app.should_quit => app'.should_quit]_vars

C9_Witness ==
    /\ app.should_quit
    /\ before.view_mode = "Detail"
    /\ pc = "returned" /\ result = "Ok"

(* C10: in every step, if selected changes or view_mode becomes Detail,    *)
(* detail_scroll is 0 after the step.                                      *)
C10_ScrollResetOnChange ==
    [][(\/ app'.selected # app.selected
        \/ (app'.view_mode = "Detail" /\ app.view_mode # "Detail"))
       => app'.detail_scroll = 0]_vars

(* A press of one of `codes` handled in `input_mode`, in either view. *)
PressedInMode(codes, input_mode) ==
    \/ PressedIn(codes, input_mode, "List")
    \/ PressedIn(codes, input_mode, "Detail")

(* C11: detail_scroll is never negative, and the up key in Detail view     *)
(* takes it from s to s-1 when s > 0 and leaves it at 0 when s = 0.        *)
C11_ScrollFloor ==
    /\ app.detail_scroll >= 0
    /\ PressedIn(UpKeys, "Normal", "Detail") =>
          app = [before EXCEPT !.detail_scroll =
                    IF before.detail_scroll > 0
                    THEN before.detail_scroll - 1 ELSE 0]

(* The up key was pressed in Detail view at offset 0. *)
C11_Witness ==
    /\ PressedIn(UpKeys, "Normal", "Detail")
    /\ before.detail_scroll = 0 /\ app.detail_scroll = 0
    /\ pc = "draw"

(* What the Track Store answers for the query text q: list_all for the    *)
(* empty text, search(q) otherwise.                                        *)
StoreAnswer(db, q) ==
    IF q = <<>> THEN get_all_tracks(db) ELSE search_tracks(db, q)

(* The last event was a press of a character key handled in Editing mode. *)
CharTypedInEditing ==
    /\ hist.reads
    /\ key.type = "Key" /\ key.kind = "Press" /\ key.code.tag = "Char"
    /\ before.input_mode = "Editing"

(* C12: a character typed in Editing mode is appended at the end of        *)
(* search_query and the store is queried in the same event; when the query *)
(* succeeds, tracks is the store's answer for the new query text.          *)
C12_CharAppendsAndRequeries ==
    CharTypedInEditing =>
        /\ app.search_query = before.search_query \o <<key.code.c>>
        /\ hist.lastQuery \in {"ok", "failed"}
        /\ hist.lastQuery = "ok" =>
              app.tracks = StoreAnswer(store, app.search_query)

(* 'j' typed after "a": the query is "aj" and the list shrank to its match. *)
C12_Witness ==
    /\ CharTypedInEditing
    /\ before.search_query = <<"a">> /\ key.code.c = "j"
    /\ app.search_query = <<"a", "j">>
    /\ Len(before.tracks) = 2 /\ Len(app.tracks) = 1
    /\ hist.lastQuery = "ok"

(* C13: Backspace in Editing mode removes the last character of            *)
(* search_query, or leaves an empty one empty, and queries the store in    *)
(* the same event; when the query succeeds and the query text is empty,    *)
(* tracks is the full list.                                                *)
C13_BackspacePopsAndRequeries ==
    PressedInMode({Code("Backspace")}, "Editing") =>
        /\ app.search_query =
              (IF before.search_query = <<>> THEN <<>>
               ELSE SubSeq(before.search_query, 1, Len(before.search_query) - 1))
        /\ hist.lastQuery \in {"ok", "failed"}
        /\ (hist.lastQuery = "ok" /\ app.search_query = <<>>) =>
              app.tracks = get_all_tracks(store)

(* Backspace took a one-character query that matched nothing back to the   *)
(* empty query and the full list of three tracks.                          *)
C13_Witness ==
    /\ PressedInMode({Code("Backspace")}, "Editing")
    /\ Len(before.search_query) = 1 /\ before.tracks = <<>>
    /\ app.search_query = <<>>
    /\ Len(app.tracks) = 3 /\ app.tracks = store

(* C14: Enter and Esc in Editing mode set input_mode to Normal, leave      *)
(* every other field of the App as it was, and make no store query.        *)
C14_ConfirmCancelLeaveResults ==
    PressedInMode(EnterKeys \cup EscKeys, "Editing") =>
        /\ app = [before EXCEPT !.input_mode = "Normal"]
        /\ hist.lastQuery = "none"

(* Esc pressed on a filtered list in Detail view. *)
C14_Witness ==
    /\ PressedIn(EscKeys, "Editing", "Detail")
    /\ before.search_query # <<>>
    /\ Len(app.tracks) < Len(store) /\ app.tracks # <<>>
    /\ app.input_mode = "Normal"

CommandChars == {"q", "/", "j", "k", "h", "l"}

(* C15: a Normal-mode command character typed in Editing mode is appended  *)
(* to search_query; view_mode, detail_scroll, input_mode and should_quit   *)
(* keep their values, and selected changes only as the re-query sets it;   *)
(* should_quit is set only by an event handled in Normal mode.             *)
C15_EditingTakesCommandChars ==
    /\ (CharTypedInEditing /\ key.code.c \in CommandChars) =>
          /\ app.search_query = before.search_query \o <<key.code.c>>
          /\ app.view_mode = before.view_mode
          /\ app.detail_scroll = before.detail_scroll
          /\ app.input_mode = "Editing"
          /\ ~app.should_quit
          /\ hist.lastQuery = "failed" =>
                (app.selected = before.selected /\ app.tracks = before.tracks)
          /\ hist.lastQuery = "ok" =>
                app.selected = (IF app.tracks # <<>> THEN Some(0) ELSE None)
    /\ app.should_quit => before.input_mode = "Normal"

(* 'q' typed in Editing mode while the Detail view shows, scrolled. *)
C15_Witness ==
    /\ CharTypedInEditing /\ key.code.c = "q"
    /\ before.view_mode = "Detail" /\ before.detail_scroll > 0
    /\ app.search_query = <<"q">>
    /\ ~app.should_quit /\ pc = "draw"

(* C16: with a store of zero tracks the App starts with empty tracks and  *)
(* selected = None, and Enter pressed in Normal mode, List view leaves the *)
(* whole App, view_mode included, as it was.                               *)
C16_EnterOnEmptyStoreIsNoOp ==
    (AppExists /\ store = <<>>) =>
        /\ ~hist.reads => (app.tracks = <<>> /\ app.selected = None)
        /\ PressedIn(EnterKeys, "Normal", "List") => app = before

(* The selection i moved one step forward / backward with wraparound. *)
SelectedAfterNext(a) ==
    IF a.tracks = <<>> THEN a.selected
    ELSE IF a.selected = Len(a.tracks) - 1 THEN 0 ELSE a.selected + 1

SelectedAfterPrevious(a) ==
    IF a.tracks = <<>> THEN a.selected
    ELSE IF a.selected = 0 THEN Len(a.tracks) - 1 ELSE a.selected - 1

(* C17: in Normal mode Enter turns List view into Detail view and Detail   *)
(* view into List view, and Esc turns Detail view into List view; each     *)
(* leaves detail_scroll at 0 and tracks, selected, search_query and        *)
(* input_mode (and should_quit) as they were.                              *)
C17_ConfirmCancelSwitchView ==
    /\ PressedIn(EnterKeys, "Normal", "List") =>
          app = [before EXCEPT !.view_mode = "Detail", !.detail_scroll = 0]
    /\ PressedIn(EnterKeys \cup EscKeys, "Normal", "Detail") =>
          app = [before EXCEPT !.view_mode = "List", !.detail_scroll = 0]

(* Esc left a scrolled Detail view. *)
C17_Witness ==
    /\ PressedIn(EscKeys, "Normal", "Detail")
    /\ before.detail_scroll > 0
    /\ app.view_mode = "List" /\ app.detail_scroll = 0

(* C18: in Normal mode, List view, 'l'/Right, 'h'/Left and Esc leave every *)
(* field of the App as it was.                                             *)
C18_ListViewNoOps ==
    PressedIn(RightKeys \cup LeftKeys \cup EscKeys, "Normal", "List") =>
        app = before

(* 'l' pressed in List view on a list of three with the first selected. *)
C18_Witness ==
    /\ PressedIn({CharCode("l")}, "Normal", "List")
    /\ Len(app.tracks) = 3 /\ app.selected = 0
    /\ pc = "draw"

(* C19: in Normal mode, Detail view, the down key adds one to              *)
(* detail_scroll, whatever the track shown, and changes nothing else; in   *)
(* List view it moves the selection and leaves detail_scroll as it was.    *)
C19_DownScrollsOrSelects ==
    /\ PressedIn(DownKeys, "Normal", "Detail") =>
          app = [before EXCEPT !.detail_scroll = before.detail_scroll + 1]
    /\ PressedIn(DownKeys, "Normal", "List") =>
          app = [before EXCEPT !.selected = SelectedAfterNext(before)]

(* The third down key in the Detail view of a track. *)
C19_Witness ==
    /\ PressedIn(DownKeys, "Normal", "Detail")
    /\ before.detail_scroll = 2 /\ app.detail_scroll = 3
    /\ app.selected # None

(* C20: in Normal mode, Detail view, 'l'/Right selects the next track and  *)
(* 'h'/Left the previous one, with wraparound; the view stays Detail,      *)
(* detail_scroll is 0 afterwards and nothing else changes.                 *)
C20_DetailCrossItem ==
    /\ PressedIn(RightKeys, "Normal", "Detail") =>
          app = [before EXCEPT !.selected = SelectedAfterNext(before),
                               !.detail_scroll = 0]
    /\ PressedIn(LeftKeys, "Normal", "Detail") =>
          app = [before EXCEPT !.selected = SelectedAfterPrevious(before),
                               !.detail_scroll = 0]

(* 'h' on the first of three tracks, scrolled: the last track, offset 0. *)
C20_Witness ==
    /\ PressedIn({CharCode("h")}, "Normal", "Detail")
    /\ before.selected = 0 /\ before.detail_scroll > 0
    /\ app.selected = 2 /\ app.detail_scroll = 0
    /\ app.view_mode = "Detail"

(* The step reads an event and handles it: event::read returned Ok.        *)
StepReads ==
    /\ pc = "read"
    /\ pc' = "draw" \/ res' = "Ok" \/ hist'.lastQuery = "failed"

(* The step handles a press of a key in `codes`, read in `input_mode`. *)
PressStep(codes, input_mode) ==
    /\ StepReads
    /\ key'.type = "Key" /\ key'.kind = "Press" /\ key'.code \in codes
    /\ app.input_mode = input_mode

(* C21: input_mode changes only as follows.  App::new starts in Normal     *)
(* mode.  '/' pressed in Normal mode, in the List view and in the Detail   *)
(* view alike, switches to Editing and leaves tracks, selected,            *)
(* search_query, view_mode and detail_scroll as they were; Enter or Esc    *)
(* pressed in Editing mode switches to Normal; no other step of the        *)
(* program changes input_mode.                                             *)
C21_InputModeChanges ==
    [][ /\ (hist.load # "ok" /\ hist'.load = "ok") => app'.input_mode = "Normal"
        /\ PressStep(SearchKeys, "Normal") =>
                app' = [app EXCEPT !.input_mode = "Editing"]
        /\ PressStep(EnterKeys \cup EscKeys, "Editing") =>
                app'.input_mode = "Normal"
        /\ app'.input_mode # app.input_mode =>
                \/ PressStep(SearchKeys, "Normal")
                \/ PressStep(EnterKeys \cup EscKeys, "Editing") ]_vars

C21_Witness ==
    /\ PressedIn(SearchKeys, "Normal", "Detail")
    /\ app.input_mode = "Editing"
    /\ app.detail_scroll > 0 /\ app.selected > 0
    /\ app.search_query # <<>>
    /\ pc = "read"

(* C22: drawing a frame has no effect on the App: every step taken from   *)
(* terminal.draw, whether the draw succeeds or fails, leaves tracks,       *)
(* selected, search_query, input_mode, view_mode, detail_scroll and        *)
(* should_quit with the values they had before it.                         *)
C22_FrameLeavesApp ==
    [][pc = "draw" => app' = app]_vars

C22_Witness ==
    /\ pc = "read" /\ hist.frames
    /\ PressedIn(DownKeys, "Normal", "List")
    /\ app.view_mode = "List"
    /\ before.selected = 1 /\ app.selected = 2

(* The event read in this step matches no arm that does anything: it is   *)
(* no key event, or a key event that is no press, or a key without an arm  *)
(* in Normal mode, or in Editing mode a key that is neither a character    *)
(* nor Enter, Esc or Backspace.                                            *)
MatchesNoRule ==
    /\ StepReads
    /\ \/ key'.type # "Key"
       \/ key'.kind # "Press"
       \/ app.input_mode = "Normal" /\ key'.code \notin BoundKeys
       \/ /\ app.input_mode = "Editing"
          /\ key'.code.tag # "Char"
          /\ key'.code \notin {Code("Enter"), Code("Esc"), Code("Backspace")}

(* C23: a step that reads an event matching no rule leaves the whole App   *)
(* as it was, runs no store query, and goes on to the next iteration.      *)
C23_UnmatchedEventsIgnored ==
    [][MatchesNoRule =>
          /\ app' = app
          /\ hist'.lastQuery = "none"
          /\ store' = store
          /\ pc' = "draw" /\ res' = res]_vars

C23_Witness ==
    /\ hist.reads
    /\ key = Release(CharCode("q"))
    /\ before.input_mode = "Normal"
    /\ before.selected = 1
    /\ ~app.should_quit
    /\ pc = "read"

(* C24: when the store query made by update_search fails, tracks and       *)
(* selected are what they were before the key was pressed, so in the state *)
(* in which the error is reported selected is None iff tracks is empty and *)
(* otherwise 0 <= selected < len(tracks).                                  *)
C24_FailedQueryKeepsResults ==
    hist.lastQuery = "failed" =>
        /\ app.tracks = before.tracks
        /\ app.selected = before.selected
        /\ (app.selected = None) <=> (app.tracks = <<>>)
        /\ app.selected # None =>
                app.selected >= 0 /\ app.selected < Len(app.tracks)
        /\ res = "Err"

C24_Witness ==
    /\ hist.lastQuery = "failed"
    /\ key = Press(CharCode("a"))
    /\ Len(before.tracks) = 2 /\ before.selected = 1
    /\ app.search_query = <<"q", "a">>
    /\ result = "Err"

(* C25: should_quit is tested once in every iteration, after the event has *)
(* been handled, so the loop is left in the iteration that set it; and     *)
(* when the loop is left that way, no resize event that arrived while the  *)
(* loop was running is still waiting in the input queue: the loop has      *)
(* processed it before the teardown of `run` begins.                       *)
C25_ExitDrainsQueuedEvents ==
    /\ app.should_quit => ~InLoop
    /\ res = "Ok" => ~queued

(* C26: the store is never written and answers a query by its text alone; *)
(* as long as no store query has failed, in every state after App::new     *)
(* tracks is the store's answer for the current search_query (all tracks   *)
(* when it is empty), in both input modes and both views.  So, after a     *)
(* character has been typed, running update_search again leaves tracks as  *)
(* it is, and Backspace gives back the query and the tracks there were     *)
(* before the character was typed.                                         *)
C26_ResultsMatchQuery ==
    /\ [][store' = store]_vars
    /\ [](/\ (AppExists /\ hist.lastQuery # "failed") =>
                app.tracks = StoreAnswer(store, app.search_query)
          /\ (CharTypedInEditing /\ hist.lastQuery = "ok" /\ pc = "read") =>
                LET erased ==
                      update_search(EditQuery(app, Code("Backspace")), store)
                IN /\ update_search(app, store).tracks = app.tracks
                   /\ erased.search_query = before.search_query
                   /\ erased.tracks = before.tracks)

(* 'j' was typed and erased again in the Detail view: the list is the      *)
(* whole store again.                                                      *)
C26_Witness ==
    /\ PressedIn({Code("Backspace")}, "Editing", "Detail")
    /\ hist.lastQuery = "ok"
    /\ before.search_query = <<"j">> /\ Len(before.tracks) = 1
    /\ app.search_query = <<>>
    /\ Len(store) = 3 /\ app.tracks = get_all_tracks(store)

(* C27: a step that handles a key event in Normal mode leaves search_query *)
(* and tracks as they were and runs no store query; search_query is empty  *)
(* after App::new, and a step changes it only when it handles a key press  *)
(* in Editing mode, and then either by adding one character at its end or  *)
(* by removing its last character.                                         *)
C27_QueryEditedOnlyInEditing ==
    [][ /\ (hist.load # "ok" /\ hist'.load = "ok") => app'.search_query = <<>>
        /\ (StepReads /\ key'.type = "Key" /\ app.input_mode = "Normal") =>
              /\ app'.search_query = app.search_query
              /\ app'.tracks = app.tracks
              /\ hist'.lastQuery = "none"
        /\ app'.search_query # app.search_query =>
              /\ PressStep({code \in KeyCodes : EditsQuery(code)}, "Editing")
              /\ \/ \E c \in Chars :
                      app'.search_query = app.search_query \o <<c>>
                 \/ /\ app.search_query # <<>>
                    /\ app'.search_query =
                          SubSeq(app.search_query, 1, Len(app.search_query) - 1)
      ]_vars

(* Down in Normal mode with a filtered list: the selection moved, the      *)
(* query text and the list stayed.                                         *)
C27_Witness ==
    /\ PressedIn(DownKeys, "Normal", "List")
    /\ before.search_query = <<"q">>
    /\ before.selected = 0 /\ app.selected = 1
    /\ app.search_query = <<"q">>
    /\ app.tracks = before.tracks

(* C28: in every state after App::new, view_mode = List implies            *)
(* detail_scroll = 0, whatever the input mode.                             *)
C28_ListViewScrollZero ==
    (AppExists /\ app.view_mode = "List") => app.detail_scroll = 0

(* Esc went back to the List view from a scrolled Detail view. *)
C28_Witness ==
    /\ PressedIn(EscKeys, "Normal", "Detail")
    /\ before.detail_scroll = MaxScroll
    /\ app.view_mode = "List" /\ app.detail_scroll = 0
    /\ app.search_query # <<>>

(* What the match of tui.rs:163-222 makes of App `a` when `code` is        *)
(* pressed and a store query, if the arm runs one, succeeds.               *)
HandleKey(a, code) ==
    IF a.input_mode = "Normal" THEN KeyNormal(a, code)
    ELSE IF EditsQuery(code) THEN update_search(EditQuery(a, code), store)
    ELSE KeyEditing(a, code)

(* C29: from every state of the running loop, whatever the input mode, the *)
(* view, the query and the list, two key presses end the loop: Esc leaves  *)
(* the App in Normal mode without quitting, the frame drawn next leaves it *)
(* so, and 'q' pressed then sets should_quit; and in the run itself every  *)
(* Esc press has left the App in Normal mode with the loop running, and    *)
(* every 'q' press in Normal mode has set should_quit and made run_app     *)
(* return Ok.                                                              *)
C29_EscThenQuitEndsLoop ==
    /\ (AppExists /\ InLoop) =>
          LET afterEsc == HandleKey(app, Code("Esc"))
              afterQ == HandleKey(ui(afterEsc), CharCode("q"))
          IN /\ afterEsc.input_mode = "Normal"
             /\ ~QuitCheck(afterEsc)
             /\ QuitCheck(afterQ)
             /\ afterQ = [afterEsc EXCEPT !.should_quit = TRUE]
    /\ (hist.reads /\ key = Press(Code("Esc"))) =>
          /\ app.input_mode = "Normal"
          /\ ~app.should_quit
          /\ res # "Ok"
    /\ (hist.reads /\ key = Press(CharCode("q"))
          /\ before.input_mode = "Normal") =>
          /\ app.should_quit
          /\ ~InLoop
          /\ res = "Ok"

(* 'q' pressed in Normal mode, reached from the search box with a query    *)
(* that matches nothing: run_app returned Ok and run returned it.          *)
C29_Witness ==
    /\ hist.reads /\ key = Press(CharCode("q"))
    /\ before.input_mode = "Normal"
    /\ before.search_query # <<>> /\ before.tracks = <<>>
    /\ store # <<>>
    /\ app.should_quit
    /\ pc = "returned" /\ result = "Ok"

============================================================================
